---- MODULE Spec2Model ----
(***************************************************************************)
(* Model of the document-intelligence pages:                               *)
(*   nav/doc2text.py    clean_text, structure_text, table header repair    *)
(*                      and the table display loop                         *)
(*   nav/data2visual.py validate_columns                                   *)
(* Text is a sequence of Unicode code points, so the regular expressions   *)
(* of the source are evaluated on the characters they are written for.     *)
(***************************************************************************)
EXTENDS Integers, Sequences, FiniteSets, TLC

VARIABLES
    parts,          \* the input text, as the names of the fragments it is made of
    client,         \* TRUE when the OpenAI client was constructed
    reply,          \* what the completion call of structure_text produced
    cleaned,        \* clean_text(text)
    structured,     \* list of sections returned by structure_text
    phase,          \* which operation of the text pipeline ran last
    headers,        \* raw header row of a table (table[0])
    unique_headers, \* header labels computed by the display loop
    tables,         \* st.session_state.tables
    shown,          \* what the display loop rendered, one entry per expander
    df,             \* st.session_state.df: the columns of the loaded dataset
    spec,           \* chart_type and the selected columns (and agg_method)
    errors,         \* result of validate_columns / validation_errors of the page
    plot,           \* what Generate Visualization aggregated and drew
    requests,       \* Generate Visualization clicks so far
    session,        \* st.session_state, shared by the pages of the application
    tmp_files,      \* temporary files that exist on disk
    out,            \* what the last run of a page script did and displayed
    page,           \* the page st.navigation is running
    clicks          \* button clicks so far

vars == <<parts, client, reply, cleaned, structured, phase,
          headers, unique_headers, tables, shown, df, spec, errors,
          plot, requests, session, tmp_files, out, page, clicks>>

textVars  == <<parts, client, reply, cleaned, structured>>
tableVars == <<headers, unique_headers, tables, shown>>
chartVars == <<df, spec, errors, plot, requests>>
sessionVars == <<session, tmp_files, out, page, clicks>>

\* no page of the application has been opened
SessionIdle ==
    /\ session = << >> /\ tmp_files = {} /\ out = << >>
    /\ page = "" /\ clicks = 0

(***************************************************************************)
(* Bounds of the model                                                     *)
(***************************************************************************)
MaxParts      == 3   \* fragments concatenated into an input text
MaxAISections == 2   \* entries of the `sections` array of an AI reply
MaxCols       == 3   \* cells of a raw header row
MaxTables     == 4   \* tables extracted from one document
MaxRows       == 6   \* rows of an extracted table
MaxDfCols     == 3   \* columns of a loaded dataset
MaxVizRows    == 3   \* rows of a dataset handed to Generate Visualization
MaxRequests   == 2   \* Generate Visualization clicks in one session
MaxClicks     == 2   \* button clicks in one session of the pages

(***************************************************************************)
(* Program constants                                                       *)
(***************************************************************************)
AIMinLen  == 500     \* len(text) > 500
MinTokens == 5       \* len(content.split()) > 5
ShownTables == 3     \* st.session_state.tables[:3]
RawRows   == 5       \* table[:5]
PromptChars == 10000  \* st.session_state.extracted_text[:10000]

(***************************************************************************)
(* Characters                                                              *)
(***************************************************************************)
\* str.isspace / regex \s on the ASCII range: \t \n \v \f \r, FS GS RS US, space
Whitespace == {9, 10, 11, 12, 13, 28, 29, 30, 31, 32}
IsSpace(c) == c \in Whitespace

Min(S) == CHOOSE x \in S : \A y \in S : x <= y
Max(S) == CHOOSE x \in S : \A y \in S : x >= y

RECURSIVE Flatten(_)
Flatten(ss) == IF ss = <<>> THEN <<>> ELSE Head(ss) \o Flatten(Tail(ss))

\* str.strip(): drop leading and trailing whitespace
RECURSIVE SkipSpaceFwd(_, _)
SkipSpaceFwd(s, p) ==
    IF p <= Len(s) /\ IsSpace(s[p]) THEN SkipSpaceFwd(s, p + 1) ELSE p
RECURSIVE SkipSpaceBack(_, _)
SkipSpaceBack(s, p) ==
    IF p >= 1 /\ IsSpace(s[p]) THEN SkipSpaceBack(s, p - 1) ELSE p
Strip(s) == SubSeq(s, SkipSpaceFwd(s, 1), SkipSpaceBack(s, Len(s)))

\* len(s.split()): number of maximal runs of non-whitespace characters
TokenCount(s) ==
    Cardinality({p \in 1..Len(s) :
                   ~IsSpace(s[p]) /\ (p = 1 \/ IsSpace(s[p - 1]))})

(***************************************************************************)
(* clean_text (doc2text.py 84-88)                                          *)
(***************************************************************************)
\* re.sub(r'\s+', ' ', text): every maximal whitespace run becomes one space
SubWhitespaceRunsPairs(s) ==
    \* the pattern \s\s in place of \s+: whitespace is replaced pair by pair
    LET n       == Len(s)
        off(p)  == p - (SkipSpaceBack(s, p) + 1)
        paired(p) == off(p) % 2 = 0 /\ p < n /\ IsSpace(s[p + 1])
        keep == SelectSeq([p \in 1..n |-> p],
                          LAMBDA p : ~IsSpace(s[p]) \/ off(p) % 2 = 0)
    IN  [k \in 1..Len(keep) |->
            IF IsSpace(s[keep[k]]) /\ paired(keep[k]) THEN 32 ELSE s[keep[k]]]

SubWhitespaceRuns(s) ==
    LET keep == SelectSeq([p \in 1..Len(s) |-> p],
                          LAMBDA p : ~IsSpace(s[p]) \/ p = 1 \/ ~IsSpace(s[p - 1]))
    IN  [k \in 1..Len(keep) |-> IF IsSpace(s[keep[k]]) THEN 32 ELSE s[keep[k]]]

\* re.sub(r'\n{3,}', '\n\n', text): a run of 3 or more newlines becomes 2
SubNewlineRuns(s) ==
    LET keep == SelectSeq([p \in 1..Len(s) |-> p],
                          LAMBDA p : ~(p >= 3 /\ s[p] = 10 /\ s[p - 1] = 10
                                       /\ s[p - 2] = 10))
    IN  [k \in 1..Len(keep) |-> s[keep[k]]]

\* clean_text without the whitespace substitution of line 86
clean_text_KeepNewlines(t) == Strip(SubNewlineRuns(t))

clean_text(t) == Strip(SubNewlineRuns(SubWhitespaceRuns(t)))

(***************************************************************************)
(* Regular expressions of structure_text.  A pattern is a sequence of      *)
(* items, each a character class with a quantifier "1", "*" or "+".        *)
(* Matching is greedy with backtracking, as in Python's re module.         *)
(***************************************************************************)
Cls(set)    == [neg |-> FALSE, set |-> set]
NotCls(set) == [neg |-> TRUE,  set |-> set]
InClass(c, cls) == (c \in cls.set) # cls.neg

One(cls)  == [cls |-> cls, q |-> "1"]
Star(cls) == [cls |-> cls, q |-> "*"]
Plus(cls) == [cls |-> cls, q |-> "+"]

\* the character classes of the patterns
Class ==
    [ NL |-> Cls({10}),   \* \n
      Space |-> Cls(Whitespace),   \* \s
      Upper |-> Cls(65..90),   \* [A-Z]
      CapsSp |-> Cls((65..90) \cup (48..57) \cup {32}),   \* [A-Z0-9 ]
      Digit |-> Cls(48..57),   \* \d
      Dot |-> Cls({46}),   \* \.
      Colon |-> Cls({58}),   \* :
      Rule |-> Cls({45, 61}),   \* [-=]
      Bullet |-> Cls({8226, 9632, 9830, 9679}),   \* the four bullet characters
      NotNL |-> NotCls({10}) ]   \* [^\n]

\* first position at or after p whose character is outside cls (Len+1 if none)
RunEnd(s, p, cls) ==
    CHOOSE q \in p..(Len(s) + 1) :
        /\ q > Len(s) \/ ~InClass(s[q], cls)
        /\ \A r \in p..(q - 1) : InClass(s[r], cls)

\* End of the match of items k.. of pat at position p of s: the position after
\* the last matched character, or 0 when there is no match.
RECURSIVE MatchFrom(_, _, _, _)
MatchFrom(pat, k, s, p) ==
    IF k > Len(pat) THEN p
    ELSE LET it == pat[k] IN
         IF it.q = "1"
         THEN IF p <= Len(s) /\ InClass(s[p], it.cls)
              THEN MatchFrom(pat, k + 1, s, p + 1) ELSE 0
         ELSE LET lo   == IF it.q = "+" THEN p + 1 ELSE p
                  hi   == RunEnd(s, p, it.cls)
                  rest == {<<e, MatchFrom(pat, k + 1, s, e)>> : e \in lo..hi}
                  ok   == {r \in rest : r[2] # 0}
              IN  IF ok = {} THEN 0
                  ELSE (CHOOSE r \in ok : \A o \in ok : o[1] <= r[1])[2]

\* re.split(pattern, text): the pieces between the leftmost non-overlapping
\* matches.  No pattern of the source has a group or can match the empty string.
RECURSIVE SplitFrom(_, _, _)
SplitFrom(pat, s, pos) ==
    LET first   == pat[1].cls
        starts  == {p \in pos..Len(s) : InClass(s[p], first)}
        matches == {m \in {<<p, MatchFrom(pat, 1, s, p)>> : p \in starts} :
                      m[2] # 0}
    IN  IF matches = {} THEN << SubSeq(s, pos, Len(s)) >>
        ELSE LET m == CHOOSE x \in matches : \A y \in matches : x[1] <= y[1]
             IN  << SubSeq(s, pos, m[1] - 1) >> \o SplitFrom(pat, s, m[2])
ReSplit(pat, s) == SplitFrom(pat, s, 1)

\* section_patterns (doc2text.py 145-152), in list order
PatAllCaps   == << One(Class.NL), Star(Class.Space), One(Class.NL), Star(Class.Space),
                   One(Class.Upper), Plus(Class.CapsSp), Star(Class.Space), One(Class.NL),
                   Star(Class.Space), One(Class.NL) >>
PatNumbered  == << One(Class.NL), Star(Class.Space), Plus(Class.Digit), One(Class.Dot),
                   Plus(Class.Space), One(Class.Upper), Plus(Class.NotNL), Star(Class.Space),
                   One(Class.NL) >>
PatUnderline == << One(Class.NL), Star(Class.Space), One(Class.Upper), Plus(Class.NotNL),
                   Star(Class.Space), One(Class.NL), Plus(Class.Rule), Star(Class.Space),
                   One(Class.NL) >>
PatColon     == << One(Class.NL), Star(Class.Space), One(Class.Upper), Plus(Class.NotNL),
                   One(Class.Colon), Star(Class.Space), One(Class.NL) >>
PatBullet    == << One(Class.NL), Star(Class.Space), One(Class.Bullet), Plus(Class.Space),
                   One(Class.Upper), Plus(Class.NotNL), Star(Class.Space), One(Class.NL) >>
PatSpaced    == << One(Class.NL), Star(Class.Space), One(Class.NL), Star(Class.Space),
                   One(Class.Upper), Plus(Class.NotNL), Star(Class.Space), One(Class.NL),
                   Star(Class.Space), One(Class.NL) >>
section_patterns ==
    << PatAllCaps, PatNumbered, PatUnderline, PatColon, PatBullet, PatSpaced >>

\* r'\n\s*\n', the paragraph separator (doc2text.py 168)
PatParagraph == << One(Class.NL), Star(Class.Space), One(Class.NL) >>

(***************************************************************************)
(* structure_text (doc2text.py 90-178)                                     *)
(***************************************************************************)
Section(content, type, heading) ==
    [content |-> content, type |-> type, length |-> Len(content),
     heading |-> heading]

\* JSON values of the completion's reply
JStr(v)  == [t |-> "str",  v |-> v]
JNull    == [t |-> "null", v |-> <<>>]
JObj(f)  == [t |-> "obj",  v |-> f]
\* dict.get(key, default)
Get(obj, key, default) == IF key \in DOMAIN obj.v THEN obj.v[key] ELSE default

\* section.get(...) needs an object; content.strip() needs a string
ConversionRaises(entry) ==
    \/ entry.t # "obj"
    \/ Get(entry, "content", JStr(<<>>)).t # "str"

\* the loop of lines 128-136 over ai_structure.get('sections', []): the
\* sections appended so far, and whether an entry made the conversion raise
RECURSIVE ConvertSections(_, _)
ConvertSections(entries, acc) ==
    IF entries = <<>> THEN [raised |-> FALSE, out |-> acc]
    ELSE LET section == Head(entries) IN
         IF ConversionRaises(section) THEN [raised |-> TRUE, out |-> acc]
         ELSE LET content == Strip(Get(section, "content", JStr(<<>>)).v)
                  keep    == content # <<>> /\ TokenCount(content) > MinTokens
                  sec     == Section(content,
                                     Get(section, "type", JStr("section")).v,
                                     Get(section, "heading", JStr("")).v)
              IN  ConvertSections(Tail(entries),
                                  IF keep THEN Append(acc, sec) ELSE acc)

\* lines 96-142: the try block.  reply.kind is "raise" when
\* client.chat.completions.create raises, "badjson" when json.loads raises,
\* "json" when the reply parses to the object reply.body.
AIPath(rep) ==
    IF rep.kind # "json" THEN [raised |-> TRUE, out |-> <<>>]
    ELSE LET secs == Get(rep.body, "sections", [t |-> "list", v |-> <<>>])
         IN  IF secs.t # "list" THEN [raised |-> TRUE, out |-> <<>>]
             ELSE ConvertSections(secs.v, <<>>)

\* the filter with >= in place of >
KeptSegmentsAtLeast(segs, type) ==
    LET kept == SelectSeq(segs, LAMBDA g : Len(Strip(g)) > 0
                                           /\ TokenCount(g) >= MinTokens)
    IN  [k \in 1..Len(kept) |-> Section(Strip(kept[k]), type, "")]

\* `len(section.strip()) > 0 and len(section.split()) > 5`, then the append
KeptSegments(segs, type) ==
    LET kept == SelectSeq(segs, LAMBDA g : Len(Strip(g)) > 0
                                           /\ TokenCount(g) > MinTokens)
    IN  [k \in 1..Len(kept) |-> Section(Strip(kept[k]), type, "")]

\* lines 154-165: the first pattern whose split has more than one piece
RECURSIVE PatternLoop(_, _, _)
PatternLoop(t, i, acc) ==
    IF i > Len(section_patterns) THEN acc
    ELSE LET sections == ReSplit(section_patterns[i], t)
         IN  IF Len(sections) > 1
             THEN acc \o KeptSegments(sections, "section")
             ELSE PatternLoop(t, i + 1, acc)

\* lines 144-178, entered with the list `structured` as the AI path left it
Heuristic(t, acc) ==
    LET afterPatterns == PatternLoop(t, 1, acc)
    IN  IF afterPatterns = <<>>
        THEN KeptSegments(ReSplit(PatParagraph, t), "paragraph")
        ELSE afterPatterns

UsesAI(t, cl) == cl /\ Len(t) > AIMinLen

\* the AI result returned without the `if structured:` test
structure_text_NoEmptyTest(t, cl, rep) ==
    LET ai == IF UsesAI(t, cl) THEN AIPath(rep)
              ELSE [raised |-> FALSE, out |-> <<>>]
    IN  IF UsesAI(t, cl) /\ ~ai.raised THEN ai.out
        ELSE Heuristic(t, ai.out)

structure_text(t, cl, rep) ==
    LET ai == IF UsesAI(t, cl) THEN AIPath(rep)
              ELSE [raised |-> FALSE, out |-> <<>>]
    IN  IF ~ai.raised /\ ai.out # <<>> THEN ai.out
        ELSE Heuristic(t, ai.out)

(***************************************************************************)
(* Input texts: concatenations of fragments                                *)
(***************************************************************************)
\* the fragments the input texts are made of, as code points
Frag ==
    [ \* 'hi'
      Short |-> <<104, 105>>,
      \* 'AAA'
      Caps3 |-> <<65, 65, 65>>,
      \* 'a b c d e'
      Five |-> <<97, 32, 98, 32, 99, 32, 100, 32, 101>>,
      \* 'Six words are needed to pass.'
      Six |-> <<83, 105, 120, 32, 119, 111, 114, 100, 115, 32, 97, 114, 101, 32, 110, 101, 101, 100, 101, 100, 32, 116, 111, 32, 112, 97, 115, 115, 46>>,
      \* 'This is a real paragraph with enough words to pass the filter.'
      Para |-> <<84, 104, 105, 115, 32, 105, 115, 32, 97, 32, 114, 101, 97, 108, 32, 112, 97, 114, 97, 103, 114, 97, 112, 104, 32, 119, 105, 116, 104, 32, 101, 110, 111, 117, 103, 104, 32, 119, 111, 114, 100, 115, 32, 116, 111, 32, 112, 97, 115, 115, 32, 116, 104, 101, 32, 102, 105, 108, 116, 101, 114, 46>>,
      \* 'SECTION ONE'
      CapsLine |-> <<83, 69, 67, 84, 73, 79, 78, 32, 79, 78, 69>>,
      \* ' \t '
      Blank |-> <<32, 9, 32>>,
      \* '\n\n'
      NL2 |-> <<10, 10>>,
      \* '\n\n\n\n'
      NL4 |-> <<10, 10, 10, 10>>,
      \* '\n\nSECTION ONE\n\n'
      HeadCaps |-> <<10, 10, 83, 69, 67, 84, 73, 79, 78, 32, 79, 78, 69, 10, 10>>,
      \* '\n1. Intro\n'
      HeadNum |-> <<10, 49, 46, 32, 73, 110, 116, 114, 111, 10>>,
      \* '\nTitle\n---\n'
      HeadUnder |-> <<10, 84, 105, 116, 108, 101, 10, 45, 45, 45, 10>>,
      \* '\nNotes:\n'
      HeadColon |-> <<10, 78, 111, 116, 101, 115, 58, 10>>,
      \* '\n• Item\n'
      HeadBullet |-> <<10, 8226, 32, 73, 116, 101, 109, 10>>,
      \* '\n\nTitle\n\n'
      HeadSpaced |-> <<10, 10, 84, 105, 116, 108, 101, 10, 10>>,
      \* a 500-character word: with one more character the text exceeds AIMinLen
      Filler |-> [i \in 1..AIMinLen |-> 120],
      \* 'CSV File Contents:\n\n'
      CsvHead |-> <<67, 83, 86, 32, 70, 105, 108, 101, 32, 67, 111, 110, 116,
                    101, 110, 116, 115, 58, 10, 10>>,
      \* '\n\nSheet: S1\n\n'
      SheetHead |-> <<10, 10, 83, 104, 101, 101, 116, 58, 32, 83, 49, 10, 10>> ]

\* the text a list of fragment names stands for
TextOf(ps) == Flatten([i \in 1..Len(ps) |-> Frag[ps[i]]])

ShortFrags == {"Short", "Caps3", "Five"}
LongFrags  == {"Six", "Para"}
Fragments  ==
    {"Short", "Five", "Six", "Blank", "NL2", "NL4", "HeadCaps", "HeadColon"}

SeqsUpTo(S, n) == UNION {[1..k -> S] : k \in 0..n}

\* short fragment, 4 newlines, all-caps line, blank line, long paragraph,
\* blank line, short fragment
ExampleParts ==
    {<<a, "NL4", "CapsLine", "NL2", p, "NL2", b>> :
        a \in ShortFrags, p \in LongFrags, b \in ShortFrags}
IsExample(ps) == ps \in ExampleParts

\* documents with the other kinds of heading, and with several headings
HeadingDocs ==
    { <<"Six", "HeadNum", "Six">>,
      <<"Six", "HeadSpaced", "Six">>,
      <<"Five", "HeadNum", "Six", "HeadSpaced", "Short">>,
      <<"Six", "HeadUnder", "Six">>,
      <<"Six", "HeadBullet", "Six">>,
      <<"Six", "HeadBullet", "Six", "HeadColon", "Para">>,
      <<"Six", "HeadUnder", "Five", "HeadNum", "Para">>,
      <<"Para", "HeadSpaced", "Six", "HeadCaps", "Six">>,
      <<"Short", "NL2", "Six", "NL2", "Short">> }

\* documents long enough for the AI path: they hold the 500-character word
LongDocs ==
    { <<"Filler">>,
      <<"Six", "Filler">>,
      <<"HeadCaps", "Filler">>,
      <<"Six", "HeadCaps", "Six", "Blank", "Filler">>,
      <<"Six", "NL2", "Para", "NL4", "Filler">>,
      <<"Filler", "HeadColon", "Six", "HeadColon", "Five">> }

InputParts ==
    SeqsUpTo(Fragments, MaxParts) \cup ExampleParts \cup HeadingDocs \cup LongDocs

\* replies of the completion call
LongContent  == JStr(<<32>> \o Frag.Six \o <<10>>)
ShortContent == JStr(Frag.Five)
Entries ==
    { JObj([content |-> LongContent, type |-> JStr("heading"),
            heading |-> JStr("Intro")]),
      JObj([content |-> LongContent]),
      JObj([content |-> ShortContent, type |-> JStr("paragraph")]),
      JObj([type |-> JStr("list")]),
      JObj([content |-> JNull, type |-> JStr("title")]),
      JObj([content |-> LongContent, type |-> JStr("table")]),
      JStr(Frag.Six) }
NoReply == [kind |-> "none", body |-> JNull]
Replies ==
    { [kind |-> "raise", body |-> JNull], [kind |-> "badjson", body |-> JNull],
      [kind |-> "json", body |-> JObj([summary |-> JStr(Frag.Short)])],
      [kind |-> "json", body |-> JObj([sections |-> JNull])] }
    \cup { [kind |-> "json", body |-> JObj([sections |-> [t |-> "list", v |-> es]])] :
             es \in SeqsUpTo(Entries, MaxAISections) }

(***************************************************************************)
(* The text pipeline                                                       *)
(***************************************************************************)
\* the text handed to clean_text / structure_text
text == TextOf(parts)

TextIdle ==
    /\ headers = <<>> /\ unique_headers = <<>> /\ tables = <<>> /\ shown = <<>>
    /\ df = <<>> /\ spec = <<>> /\ errors = <<>>
    /\ plot = <<>> /\ requests = 0
    /\ SessionIdle

InitText ==
    /\ parts \in InputParts
    /\ client \in BOOLEAN
    /\ reply = NoReply
    /\ cleaned = <<>>
    /\ structured = <<>>
    /\ phase = "input"
    /\ TextIdle

\* clean_text applied to the extracted text
CleanText ==
    /\ phase = "input"
    /\ cleaned' = clean_text(text)
    /\ phase' = "cleaned"
    /\ UNCHANGED <<parts, client, reply, structured>>

\* structure_text applied to a text; the completion call, when it is made,
\* answers with any reply
StructureText ==
    /\ phase = "input"
    /\ \E rep \in (IF UsesAI(text, client) THEN Replies ELSE {NoReply}) :
          /\ reply' = rep
          /\ structured' = structure_text(text, client, rep)
    /\ phase' = "structured"
    /\ UNCHANGED <<parts, client, cleaned>>

\* lines 265-268 of the Process Document handler: clean, then structure
CleanAndStructure ==
    /\ phase = "input"
    /\ text # <<>>
    /\ cleaned' = clean_text(text)
    /\ \E rep \in (IF UsesAI(cleaned', client) THEN Replies ELSE {NoReply}) :
          /\ reply' = rep
          /\ structured' = structure_text(cleaned', client, rep)
    /\ phase' = "processed"
    /\ UNCHANGED <<parts, client>>

NextText ==
    \/ (CleanText /\ UNCHANGED <<tableVars, chartVars, sessionVars>>)
    \/ (StructureText /\ UNCHANGED <<tableVars, chartVars, sessionVars>>)
    \/ (CleanAndStructure /\ UNCHANGED <<tableVars, chartVars, sessionVars>>)

SpecText == InitText /\ [][NextText]_vars


(***************************************************************************)
(* Properties of clean_text and structure_text                             *)
(***************************************************************************)
\* the text structure_text was called with
StructArg == IF phase = "processed" THEN cleaned ELSE text
Structured == phase \in {"structured", "processed"}

\* heuristic mode: lines 144-178 entered with an empty list
HeuristicMode(t) == Heuristic(t, <<>>)

Contents(secs) == [i \in 1..Len(secs) |-> secs[i].content]

\* the reply has a `sections` array
HasSections(rep) ==
    /\ rep.kind = "json"
    /\ "sections" \in DOMAIN rep.body.v
    /\ rep.body.v["sections"].t = "list"
ReplySections(rep) == rep.body.v["sections"].v

\* an entry of `sections` that is an object with a string (or no) content
WellFormed(e) ==
    /\ e.t = "obj"
    /\ "content" \in DOMAIN e.v => e.v["content"].t = "str"
EntryContent(e) == IF "content" \in DOMAIN e.v THEN e.v["content"].v ELSE <<>>
Retained(e) == WellFormed(e) /\ TokenCount(EntryContent(e)) > MinTokens

\* the AI-assisted path failed: the call raised, the reply is not JSON, it has
\* no (array of) sections, or an entry of the array is malformed
AIFailed(rep) ==
    \/ ~HasSections(rep)
    \/ \E i \in 1..Len(ReplySections(rep)) : ~WellFormed(ReplySections(rep)[i])

\* the AI-assisted path completed and retained nothing
AIRetainedNothing(rep) ==
    /\ HasSections(rep)
    /\ \A i \in 1..Len(ReplySections(rep)) :
          WellFormed(ReplySections(rep)[i]) /\ ~Retained(ReplySections(rep)[i])

\* C1: whenever the AI-assisted path of structure_text fails, the value
\* returned is exactly the value heuristic mode returns for the same text.
C1_FailureFallsBackToHeuristic ==
    (Structured /\ UsesAI(StructArg, client) /\ AIFailed(reply))
        => structured = HeuristicMode(StructArg)

\* C2: when the AI-assisted path completes without error but retains zero
\* sections, structure_text returns the heuristic-mode result for the text.
C2_EmptyAIFallsBackToHeuristic ==
    (Structured /\ UsesAI(StructArg, client) /\ AIRetainedNothing(reply))
        => structured = HeuristicMode(StructArg)

\* C2 witness: the reply's entries were all dropped and the heuristic result
\* that was returned is not empty
C2_Witness ==
    /\ Structured /\ UsesAI(StructArg, client) /\ AIRetainedNothing(reply)
    /\ Len(ReplySections(reply)) > 0
    /\ structured # <<>>

\* the pieces of every split structure_text can make of t
Splits(t) ==
    {ReSplit(section_patterns[i], t) : i \in 1..Len(section_patterns)}
        \cup {ReSplit(PatParagraph, t)}
LongPieces(segs) ==
    LET long == SelectSeq(segs, LAMBDA g : TokenCount(g) > MinTokens)
    IN  [k \in 1..Len(long) |-> Strip(long[k])]

\* C3: in every mode every returned section has content with more than 5
\* whitespace-separated tokens; in heuristic mode the sections are exactly the
\* pieces of one split that have more than 5 tokens, each on its own (shorter
\* pieces are dropped, not merged into a neighbour).
C3_SectionsHaveMoreThanFiveTokens ==
    Structured =>
        /\ \A i \in 1..Len(structured) :
              TokenCount(structured[i].content) > MinTokens
        /\ ~UsesAI(StructArg, client) =>
              \E segs \in Splits(StructArg) :
                  Contents(structured) = LongPieces(segs)

\* C3 witness: a heuristic split dropped a short piece and kept a long one
C3_Witness ==
    /\ phase = "structured" /\ ~UsesAI(text, client)
    /\ Len(structured) = 1
    /\ \E segs \in Splits(text) :
          /\ Len(segs) > 2
          /\ Contents(structured) = LongPieces(segs)
          /\ \E k \in 1..Len(segs) : TokenCount(segs[k]) = MinTokens

\* C4: clean_text is idempotent.
C4_CleanIdempotent ==
    phase \in {"cleaned", "processed"} => clean_text(cleaned) = cleaned

\* C4 witness: a text that cleaning changed
C4_Witness ==
    phase = "cleaned" /\ cleaned # <<>> /\ cleaned # text

\* a run of n or more newlines lies between two non-space characters of t
HasInnerNewlineRun(t, n) ==
    \E p \in 2..Len(t) :
        /\ p + n <= Len(t)
        /\ \A q \in p..(p + n - 1) : t[q] = 10
        /\ \E a \in 1..(p - 1) : ~IsSpace(t[a])
        /\ \E b \in (p + n)..Len(t) : ~IsSpace(t[b])
HasRun(t, n) ==
    \E p \in 1..Len(t) : p + n - 1 <= Len(t) /\ \A q \in p..(p + n - 1) : t[q] = 10

\* C5: clean_text collapses every run of 3 or more newlines to exactly 2, and
\* a double newline of the input survives as a two-newline separator that the
\* paragraph splitter can split on.
C5_DoubleNewlineSurvives ==
    (phase = "cleaned" /\ HasInnerNewlineRun(text, 2)) =>
        /\ HasRun(cleaned, 2) /\ ~HasRun(cleaned, 3)
        /\ Len(ReSplit(PatParagraph, cleaned)) > 1

\* C6: for a short fragment, 4 newlines, an all-caps heading line, a blank
\* line, a paragraph of more than 5 tokens, a blank line and a short fragment,
\* clean_text then structure_text (heuristic mode) yields exactly one section
\* whose content is exactly the long paragraph.
C6_ExampleYieldsTheParagraph ==
    (phase = "processed" /\ IsExample(parts) /\ ~UsesAI(cleaned, client)) =>
        /\ Len(structured) = 1
        /\ structured[1].content = Frag[parts[5]]

(***************************************************************************)
(* Table display (doc2text.py 291-323)                                     *)
(***************************************************************************)
\* a cell of an extracted table: None, a string or a number
CellNone   == [t |-> "none", v |-> ""]
CellStr(v) == [t |-> "str", v |-> v]
CellNum(v) == [t |-> "num", v |-> v]

\* pd.isna(h) or h == ''
IsBlank(h) == h.t = "none" \/ h = CellStr("")

\* f"Column_{i+1}" for the 0-based index i+1 = k of the cell
ColumnLabel(k) == CellStr("Column_" \o ToString(k))
\* f"{h}_{seen[h]}"
RepeatLabel(h, n) == CellStr(h.v \o "_" \o ToString(n))

\* the loop of lines 301-311; seen maps every label met so far to the number
\* of its repeats
RECURSIVE UniqueFrom(_, _, _, _)
UniqueFrom(hs, k, seen, acc) ==
    IF k > Len(hs) THEN acc
    ELSE LET h == hs[k] IN
         IF IsBlank(h)
         THEN UniqueFrom(hs, k + 1, seen, Append(acc, ColumnLabel(k)))
         ELSE IF h \in DOMAIN seen
         THEN UniqueFrom(hs, k + 1, [seen EXCEPT ![h] = @ + 1],
                         Append(acc, RepeatLabel(h, seen[h] + 1)))
         ELSE UniqueFrom(hs, k + 1,
                         [x \in DOMAIN seen \cup {h} |->
                             IF x = h THEN 0 ELSE seen[x]],
                         Append(acc, h))

\* the loop with the counter of a new label started at 1
UniqueHeadersFromOne(hs) ==
    LET RECURSIVE Go(_, _, _)
        Go(k, seen, acc) ==
            IF k > Len(hs) THEN acc
            ELSE LET h == hs[k] IN
                 IF IsBlank(h) THEN Go(k + 1, seen, Append(acc, ColumnLabel(k)))
                 ELSE IF h \in DOMAIN seen
                 THEN Go(k + 1, [seen EXCEPT ![h] = @ + 1],
                         Append(acc, RepeatLabel(h, seen[h] + 1)))
                 ELSE Go(k + 1, [x \in DOMAIN seen \cup {h} |->
                                    IF x = h THEN 1 ELSE seen[x]],
                         Append(acc, h))
    IN  Go(1, << >>, << >>)

UniqueHeaders(hs) == UniqueFrom(hs, 1, << >>, << >>)

\* df.fillna(''): missing cells become empty strings
FillNA(rows) ==
    [r \in 1..Len(rows) |->
        [c \in 1..Len(rows[r]) |->
            IF rows[r][c].t = "none" THEN CellStr("") ELSE rows[r][c]]]

FirstRows(table, n) ==
    SubSeq(table, 1, IF Len(table) < n THEN Len(table) ELSE n)

\* one pass of the loop body, lines 295-323.  raises: building or showing
\* the DataFrame raised (pandas and streamlit decide that).
ShowTable(table, raises) ==
    IF Len(table) > 1
    THEN IF raises
         THEN [kind |-> "error", columns |-> << >>, data |-> << >>,
               raw |-> FirstRows(table, RawRows)]
         ELSE [kind |-> "dataframe", columns |-> UniqueHeaders(table[1]),
               data |-> FillNA(Tail(table)), raw |-> << >>]
    ELSE [kind |-> "warning", columns |-> << >>, data |-> << >>, raw |-> << >>]

\* the loop stopped at the first table that cannot be shown
ShowTablesUntilFailure(ts, raises) ==
    LET n    == IF Len(ts) < ShownTables THEN Len(ts) ELSE ShownTables
        all  == [i \in 1..n |-> ShowTable(ts[i], raises[i])]
        bad  == {i \in 1..n : all[i].kind # "dataframe"}
    IN  IF bad = {} THEN all ELSE SubSeq(all, 1, Min(bad))

\* for i, table in enumerate(st.session_state.tables[:3])
ShowTables(ts, raises) ==
    LET n == IF Len(ts) < ShownTables THEN Len(ts) ELSE ShownTables
    IN  [i \in 1..n |-> ShowTable(ts[i], raises[i])]

\* raw header rows
HeaderCells ==
    {CellNone, CellStr(""), CellStr("X"), CellStr("x"), CellStr("X_1"),
     CellStr("Column_2"), CellNum("7")}
HeaderRows == SeqsUpTo(HeaderCells, MaxCols)

\* extracted tables: a header row and data rows of the same width
DataRow(w, r) == [c \in 1..w |-> IF c = 1 THEN CellNum(ToString(r)) ELSE CellNone]
MakeTable(hs, n) ==
    IF n = 0 THEN << >>
    ELSE << hs >> \o [r \in 1..(n - 1) |-> DataRow(Len(hs), r)]
TableHeaders == { <<CellStr("X"), CellStr("X")>>, <<CellStr(""), CellNone>> }
RowCounts    == {0, 1, 2, MaxRows}
Tables       == {MakeTable(hs, n) : hs \in TableHeaders, n \in RowCounts}

HeadersIdle == tables = << >> /\ shown = << >>
TablesIdle  == headers = << >> /\ unique_headers = << >>
OnlyTables ==
    /\ parts = << >> /\ client = FALSE /\ reply = NoReply /\ structured = << >>
    /\ df = << >> /\ spec = << >> /\ errors = << >>
    /\ plot = << >> /\ requests = 0
    /\ SessionIdle

InitHeaders ==
    /\ headers \in HeaderRows
    /\ unique_headers = << >>
    /\ phase = "input"
    /\ cleaned = << >>
    /\ HeadersIdle /\ OnlyTables

\* lines 297-311 applied to a header row
SanitizeHeaders ==
    /\ phase = "input"
    /\ unique_headers' = UniqueHeaders(headers)
    /\ phase' = "sanitized"
    /\ UNCHANGED <<headers, tables, shown>>

NextHeaders ==
    SanitizeHeaders /\ UNCHANGED <<parts, client, reply, cleaned, structured, chartVars, sessionVars>>

SpecHeaders == InitHeaders /\ [][NextHeaders]_vars

\* the session after Process Document: extracted text (possibly none) and tables
InitTables ==
    /\ tables \in SeqsUpTo(Tables, MaxTables)
    /\ cleaned \in {<< >>, Frag.Six}
    /\ shown = << >>
    /\ phase = "input"
    /\ TablesIdle /\ OnlyTables

\* the tables section is rendered (lines 282, 291): both session entries are truthy
TablesRendered == cleaned # << >> /\ tables # << >>

\* lines 282-323 of one run of the page
DisplayTables ==
    /\ phase = "input"
    /\ TablesRendered
    /\ \E raises \in [1..ShownTables -> BOOLEAN] :
          shown' = ShowTables(tables, raises)
    /\ phase' = "displayed"
    /\ UNCHANGED <<headers, unique_headers, tables>>

\* a run of the page that does not reach the tables section
DisplayNothing ==
    /\ phase = "input"
    /\ ~TablesRendered
    /\ shown' = << >>
    /\ phase' = "displayed"
    /\ UNCHANGED <<headers, unique_headers, tables>>

NextTables ==
    \/ (DisplayTables
        /\ UNCHANGED <<parts, client, reply, cleaned, structured, chartVars, sessionVars>>)
    \/ (DisplayNothing
        /\ UNCHANGED <<parts, client, reply, cleaned, structured, chartVars, sessionVars>>)

SpecTables == InitTables /\ [][NextTables]_vars

(***************************************************************************)
(* Properties of the table display                                         *)
(***************************************************************************)
Sanitized == phase = "sanitized"
Repeats(hs, i) == Cardinality({j \in 1..(i - 1) : hs[j] = hs[i]})

\* C7: for every raw header row the computed header labels are pairwise
\* distinct and non-empty, and the first occurrence of each label is kept
\* unchanged at its original position.
C7_HeadersDistinctNonEmpty ==
    Sanitized =>
        /\ Len(unique_headers) = Len(headers)
        /\ \A i, j \in 1..Len(unique_headers) :
              i # j => unique_headers[i] # unique_headers[j]
        /\ \A i \in 1..Len(unique_headers) : ~IsBlank(unique_headers[i])
        /\ \A i \in 1..Len(headers) :
              (~IsBlank(headers[i]) /\ Repeats(headers, i) = 0)
                  => unique_headers[i] = headers[i]

\* C8: the k-th repeat (k >= 1) of a label h becomes h_k, counted left to
\* right; a blank or missing cell at 0-based position i becomes Column_<i+1>;
\* no other header cell is changed.
C8_DedupRule ==
    Sanitized =>
        /\ Len(unique_headers) = Len(headers)
        /\ \A i \in 1..Len(headers) :
              unique_headers[i] =
                  IF IsBlank(headers[i]) THEN CellStr("Column_" \o ToString(i))
                  ELSE IF Repeats(headers, i) = 0 THEN headers[i]
                  ELSE CellStr(headers[i].v \o "_"
                                  \o ToString(Repeats(headers, i)))

\* C8 witness: a row with a blank cell between a label and its repeat
C8_Witness ==
    /\ Sanitized
    /\ headers = <<CellStr("X"), CellNone, CellStr("X")>>
    /\ unique_headers = <<CellStr("X"), CellStr("Column_2"), CellStr("X_1")>>

Displayed == phase = "displayed"
Smaller(a, b) == IF a < b THEN a ELSE b

\* what the loop must have rendered for table i
HandledAlone(i) ==
    /\ Len(tables[i]) < 2 =>
          shown[i].kind = "warning" /\ shown[i].columns = << >>
    /\ Len(tables[i]) >= 2 => shown[i].kind \in {"dataframe", "error"}
    /\ shown[i].kind = "dataframe" =>
          Len(shown[i].columns) = Len(tables[i][1])
    /\ shown[i].kind = "error" =>
          /\ Len(shown[i].raw) = Smaller(Len(tables[i]), RawRows)
          /\ \A r \in 1..Len(shown[i].raw) : shown[i].raw[r] = tables[i][r]

NoCol     == [none |-> TRUE,  name |-> ""]
Col(name) == [none |-> FALSE, name |-> name]

\* df.select_dtypes(include=[np.number]) / (exclude=[np.number])
NumericCols(d)  == {c \in DOMAIN d : d[c].class = "numeric"}
CategoryCols(d) == {c \in DOMAIN d : d[c].class = "categorical"}
In(col, cols)   == ~col.none /\ col.name \in cols
\* `if col`: None and the empty label are falsy (as is the integer label 0)
Truthy(col)     == ~col.none /\ col.name # ""

\* lines 84-103: the errors of the chart type
TypeErrors(d, chart_type, x_col, y_col, color_col) ==
    IF chart_type \in {"Column Chart", "Pie Chart"}
    THEN (IF ~In(x_col, CategoryCols(d))
          THEN << "X-axis must be a categorical column for " \o chart_type >>
          ELSE << >>)
         \o (IF chart_type = "Pie Chart" /\ Truthy(y_col)
                /\ ~In(y_col, NumericCols(d))
             THEN << "Value column must be numeric for Pie Charts" >>
             ELSE << >>)
    ELSE IF chart_type = "Scatter Plot"
    THEN (IF ~In(x_col, NumericCols(d))
          THEN << "X-axis must be numeric for Scatter Plot" >> ELSE << >>)
         \o (IF ~In(y_col, NumericCols(d))
             THEN << "Y-axis must be numeric for Scatter Plot" >> ELSE << >>)
         \o (IF Truthy(color_col) /\ ~In(color_col, CategoryCols(d))
             THEN << "Color-by column must be categorical" >> ELSE << >>)
    ELSE IF chart_type = "Line Chart"
    THEN (IF ~In(x_col, CategoryCols(d) \cup NumericCols(d))
          THEN << "X-axis must be categorical or numeric for Line Chart" >>
          ELSE << >>)
         \o (IF ~In(y_col, NumericCols(d))
             THEN << "Y-axis must be numeric for Line Chart" >> ELSE << >>)
    ELSE << >>

\* lines 106-108: one error per selected column that holds a null
RECURSIVE MissingErrors(_, _)
MissingErrors(d, cols) ==
    IF cols = << >> THEN << >>
    ELSE LET col == Head(cols) IN
         (IF Truthy(col) /\ d[col.name].hasnull
          THEN << "Column '" \o col.name \o "' contains missing values" >>
          ELSE << >>) \o MissingErrors(d, Tail(cols))

\* df[col] of a column the dataset does not have raises KeyError
ValidateRaises(d, x_col, y_col, color_col) ==
    \E col \in {x_col, y_col, color_col} : Truthy(col) /\ col.name \notin DOMAIN d

\* the result: raised, or the list of errors; the empty list stands for the
\* None that is returned when there is no error
validate_columns(d, chart_type, x_col, y_col, color_col) ==
    IF ValidateRaises(d, x_col, y_col, color_col)
    THEN [raised |-> TRUE, errors |-> << >>]
    ELSE [raised |-> FALSE,
          errors |-> TypeErrors(d, chart_type, x_col, y_col, color_col)
                        \o MissingErrors(d, <<x_col, y_col, color_col>>)]

ChartTypes == {"Column Chart", "Pie Chart", "Line Chart", "Scatter Plot"}
ColName(i) == "c" \o ToString(i)
ColumnInfo == [class : {"numeric", "categorical"}, hasnull : BOOLEAN]
Datasets ==
    UNION {[{ColName(i) : i \in 1..k} -> ColumnInfo] : k \in 0..MaxDfCols}
\* None, a column of the dataset, or a name the dataset does not have
ColArgs(d) == {NoCol, Col("other")} \cup {Col(c) : c \in DOMAIN d}

ChartIdle ==
    /\ parts = << >> /\ client = FALSE /\ reply = NoReply /\ structured = << >>
    /\ cleaned = << >> /\ headers = << >> /\ unique_headers = << >>
    /\ tables = << >> /\ shown = << >>
    /\ SessionIdle

InitChart ==
    /\ df \in Datasets
    /\ spec \in [chart_type : ChartTypes, x_col : ColArgs(df),
                 y_col : ColArgs(df), color_col : ColArgs(df)]
    /\ errors = [raised |-> FALSE, errors |-> << >>]
    /\ plot = << >> /\ requests = 0
    /\ phase = "input"
    /\ ChartIdle

ValidateColumns ==
    /\ phase = "input"
    /\ errors' = validate_columns(df, spec.chart_type, spec.x_col, spec.y_col,
                                  spec.color_col)
    /\ phase' = "validated"
    /\ UNCHANGED <<df, spec, plot, requests>>

\* the options of a selectbox; a selectbox without options yields None
Options(cols) == IF cols = {} THEN {NoCol} ELSE {Col(c) : c \in cols}

\* lines 195-246: the selections the page offers for a chart type.  y_col
\* stands for y_axis, or for value_col of a pie chart; color_col for color_by.
Selectable(d, chart_type, x_col, y_col, color_col) ==
    IF chart_type = "Scatter Plot"
    THEN /\ x_col \in Options(NumericCols(d))
         /\ y_col \in Options({c \in NumericCols(d) : Col(c) # x_col})
         /\ color_col \in {NoCol} \cup {Col(c) : c \in DOMAIN d}
    ELSE /\ x_col \in Options(DOMAIN d)
         /\ y_col \in Options(NumericCols(d))
         /\ color_col = NoCol

\* lines 251-268: the validation of the Generate Visualization button
InlineErrors(d, chart_type, x_axis, y_axis, color_by) ==
    MissingErrors(d, <<x_axis, y_axis,
                       IF chart_type = "Scatter Plot" THEN color_by ELSE NoCol>>)
    \o (IF chart_type = "Pie Chart" /\ Truthy(y_axis)
           /\ ~In(y_axis, NumericCols(d))
        THEN << "Pie Chart value column must be numeric" >> ELSE << >>)
    \o (IF chart_type = "Scatter Plot"
        THEN (IF ~In(x_axis, NumericCols(d))
              THEN << "Scatter Plot X-axis must be numeric" >> ELSE << >>)
             \o (IF ~In(y_axis, NumericCols(d))
                 THEN << "Scatter Plot Y-axis must be numeric" >> ELSE << >>)
        ELSE << >>)

NextChart == ValidateColumns /\ UNCHANGED <<textVars, tableVars, sessionVars>>

SpecChart == InitChart /\ [][NextChart]_vars

(***************************************************************************)
(* Generate Visualization (data2visual.py 176-374)                         *)
(***************************************************************************)
\* a cell of the dataset: NaN/None, a number or a string
Null   == [t |-> "null", n |-> 0, s |-> ""]
Num(k) == [t |-> "num", n |-> k, s |-> ""]
Str(x) == [t |-> "str", n |-> 0, s |-> x]

\* a column with its values; hasnull is df[col].isnull().any()
Column(class, values) ==
    [class |-> class,
     hasnull |-> \E i \in DOMAIN values : values[i] = Null,
     values |-> values]

\* series.astype(str): an integer prints as itself, a number of a column that
\* holds NaN (a float column) with ".0", and NaN as "nan"
AsTypeStr(col) ==
    LET str(c) == IF c.t = "null" THEN Str("nan")
                  ELSE IF c.t = "num"
                  THEN Str(IF col.hasnull THEN ToString(c.n) \o ".0"
                           ELSE ToString(c.n))
                  ELSE c
    IN  Column("categorical", [i \in DOMAIN col.values |-> str(col.values[i])])

\* plot_df bound to the session's frame itself
AliasFrame(d) == [df |-> d, plot_df |-> d, shared |-> TRUE]

\* plot_df = df.copy(): two frames that share nothing
CopyFrame(d) == [df |-> d, plot_df |-> d, shared |-> FALSE]

\* plot_df[c] = plot_df[c].astype(str)
SetAsTypeStr(fr, c) ==
    [df      |-> IF fr.shared THEN [fr.df EXCEPT ![c] = AsTypeStr(@)] ELSE fr.df,
     plot_df |-> [fr.plot_df EXCEPT ![c] = AsTypeStr(@)],
     shared  |-> fr.shared]

\* lines 276-280 and 303-304: the copy and the conversions made on it
PlotFrames(d, chart_type, x_axis, color_by) ==
    LET copy == CopyFrame(d)
        fr1 == IF chart_type \in {"Column Chart", "Pie Chart"}
                  /\ In(x_axis, NumericCols(d))
               THEN SetAsTypeStr(copy, x_axis.name) ELSE copy
    IN  IF chart_type = "Scatter Plot" /\ Truthy(color_by)
           /\ In(color_by, NumericCols(d))
        THEN SetAsTypeStr(fr1, color_by.name) ELSE fr1

\* the strings of the model in Python's string order
StrOrder ==
    <<"1", "1.0", "10", "10.0", "2", "2.0", "20", "20.0", "30", "30.0",
      "A", "B", "nan">>
StrRank(s) == CHOOSE i \in 1..Len(StrOrder) : StrOrder[i] = s
CellLess(a, b) ==
    IF a.t = "num" THEN a.n < b.n ELSE StrRank(a.s) < StrRank(b.s)

\* an aggregated value, as a fraction in lowest terms; NaN has denominator 0
RECURSIVE GCD(_, _)
GCD(a, b) == IF b = 0 THEN a ELSE GCD(b, a % b)
Frac(n, d) == LET g == GCD(n, d) IN [num |-> n \div g, den |-> d \div g]
NaN == [num |-> 0, den |-> 0]
FracLess(a, b) == a.num * b.den < b.num * a.den

RECURSIVE SumOf(_, _)
SumOf(col, rows) ==
    IF rows = {} THEN 0
    ELSE LET i == CHOOSE r \in rows : TRUE
         IN  col.values[i].n + SumOf(col, rows \ {i})

\* the reduction taken over the whole column instead of the rows of a group
ReduceColumn(agg_method, col, rows) ==
    LET R == {i \in DOMAIN col.values : col.values[i] # Null}
        n == Cardinality(R)
    IN  IF agg_method = "sum" THEN Frac(SumOf(col, R), 1)
        ELSE IF agg_method = "count" THEN Frac(n, 1)
        ELSE IF n = 0 THEN NaN
        ELSE Frac(SumOf(col, R), n)

\* Series.agg(agg_method) of the values of col in rows; NaN is skipped
Reduce(agg_method, col, rows) ==
    LET R == {i \in rows : col.values[i] # Null}
        n == Cardinality(R)
        v(i) == col.values[i].n
        pos(i) == 1 + Cardinality({j \in R : v(j) < v(i) \/ (v(j) = v(i) /\ j < i)})
        nth(p) == v(CHOOSE i \in R : pos(i) = p)
    IN  IF agg_method = "sum" THEN Frac(SumOf(col, R), 1)
        ELSE IF agg_method = "count" THEN Frac(n, 1)
        ELSE IF n = 0 THEN NaN
        ELSE IF agg_method = "mean" THEN Frac(SumOf(col, R), n)
        ELSE IF n % 2 = 1 THEN Frac(nth((n + 1) \div 2), 1)
        ELSE Frac(nth(n \div 2) + nth(n \div 2 + 1), 2)

\* the group keys of a column: its distinct values, NaN dropped
Keys(col) == {col.values[i] : i \in DOMAIN col.values} \ {Null}
Ascending(S) ==
    [i \in 1..Cardinality(S) |->
        CHOOSE k \in S : Cardinality({j \in S : CellLess(j, k)}) = i - 1]
Group(key, value) == [key |-> key, value |-> value]

\* plot_df.groupby(x)[y].agg(agg_method).reset_index(): one row per key, in
\* ascending order of the keys
GroupAgg(pd, x, y, agg_method) ==
    LET keys == Ascending(Keys(pd[x]))
    IN  [k \in 1..Len(keys) |->
            Group(keys[k],
                  Reduce(agg_method, pd[y],
                         {i \in DOMAIN pd[x].values : pd[x].values[i] = keys[k]}))]

\* plot_df[x].value_counts(): the frequency of every value, NaN dropped
ValueCounts(pd, x) ==
    {Group(k, Frac(Cardinality({i \in DOMAIN pd[x].values : pd[x].values[i] = k}), 1)) :
        k \in Keys(pd[x])}

\* the groups in any order
Unsorted(G) ==
    {o \in [1..Cardinality(G) -> G] : \A i, j \in DOMAIN o : i # j => o[i] # o[j]}

\* sort_values(ascending=False) and the order of value_counts: descending by
\* value; the order of equal values is not fixed
Descending(G) ==
    {o \in [1..Cardinality(G) -> G] :
        /\ \A i, j \in DOMAIN o : i # j => o[i] # o[j]
        /\ \A i, j \in DOMAIN o : i < j => ~FracLess(o[i].value, o[j].value)}

Range(f) == {f[i] : i \in DOMAIN f}

\* the rows of plot_df as they are, for a chart without aggregation
PlainRows(pd, x, y) ==
    [i \in DOMAIN pd[x].values |->
        Group(pd[x].values[i],
              IF pd[y].values[i] = Null THEN NaN ELSE Frac(pd[y].values[i].n, 1))]

Points(pd, x, y, rows) ==
    LET idx == SelectSeq([i \in DOMAIN pd[x].values |-> i], LAMBDA i : i \in rows)
    IN  [k \in 1..Len(idx) |-> [x |-> pd[x].values[idx[k]], y |-> pd[y].values[idx[k]]]]

\* for name, group in plot_df.groupby(color_by): one scatter per key
ScatterSeries(pd, x, y, color_by) ==
    IF Truthy(color_by)
    THEN LET keys == Ascending(Keys(pd[color_by.name]))
         IN  [k \in 1..Len(keys) |->
                [label |-> keys[k],
                 points |-> Points(pd, x, y,
                     {i \in DOMAIN pd[x].values :
                         pd[color_by.name].values[i] = keys[k]})]]
    ELSE << [label |-> Null, points |-> Points(pd, x, y, DOMAIN pd[x].values)] >>

Chart(kind, groups, series) ==
    [kind |-> kind, groups |-> groups, series |-> series, insight |-> "none"]
\* nothing was aggregated or drawn
NoChart == Chart("none", << >>, << >>)
\* the try block of lines 282-336 raised before st.pyplot
FailedChart == Chart("failed", << >>, << >>)

\* lines 282-336 on plot_df: the charts that can result.  groupby of a
\* missing column, reset_index of a column that is also the key, and a plot
\* without a numeric y raise.
Draw(pd, chart_type, x_axis, y_axis, color_by, agg_method) ==
    IF chart_type = "Pie Chart"
    THEN IF Truthy(y_axis)
         THEN IF x_axis.none \/ x_axis = y_axis THEN {FailedChart}
              ELSE {Chart("pie", o, << >>) :
                       o \in Descending(Range(GroupAgg(pd, x_axis.name, y_axis.name,
                                                       agg_method)))}
         ELSE IF x_axis.none THEN {FailedChart}
              ELSE {Chart("pie", o, << >>) :
                       o \in Descending(ValueCounts(pd, x_axis.name))}
    ELSE IF chart_type = "Scatter Plot"
    THEN {Chart("scatter", << >>,
                ScatterSeries(pd, x_axis.name, y_axis.name, color_by))}
    ELSE IF x_axis.none \/ y_axis.none \/ x_axis = y_axis THEN {FailedChart}
    ELSE {Chart(IF chart_type = "Column Chart" THEN "bar" ELSE "line",
                IF agg_method # "None"
                THEN GroupAgg(pd, x_axis.name, y_axis.name, agg_method)
                ELSE PlainRows(pd, x_axis.name, y_axis.name),
                << >>)}

\* lines 339-371: the insights request after a chart was shown.  The scatter
\* branch of the page assigns no agg_method, so building the prompt raises.
Insight(kind, chart_type, cl, raises) ==
    IF kind \in {"none", "failed"} \/ ~cl THEN "none"
    ELSE IF chart_type = "Scatter Plot" \/ raises THEN "failed"
    ELSE "shown"

\* the aggregation methods the page offers (lines 217-222, 243-246); a
\* disabled selectbox keeps its first option
AggOptions(d, chart_type, x_col) ==
    IF chart_type = "Pie Chart"
    THEN IF NumericCols(d) # {} THEN {"sum", "mean", "count"} ELSE {"count"}
    ELSE IF chart_type = "Scatter Plot" THEN {"unset"}
    ELSE IF chart_type = "Line Chart" /\ ~In(x_col, NumericCols(d)) THEN {"None"}
    ELSE {"None", "sum", "mean", "count", "median"}

Selections(d) ==
    LET cols == {NoCol} \cup {Col(c) : c \in DOMAIN d}
    IN  {s \in [chart_type : ChartTypes, x_col : cols, y_col : cols,
                color_col : cols,
                agg_method : {"unset", "None", "sum", "mean", "count", "median"}] :
            /\ Selectable(d, s.chart_type, s.x_col, s.y_col, s.color_col)
            /\ s.agg_method \in AggOptions(d, s.chart_type, s.x_col)}

\* loaded datasets: every table of up to MaxVizRows rows with a categorical
\* and a numeric column, and tables with other shapes of columns
CellSeqs(S) == UNION {[1..n -> S] : n \in 1..MaxVizRows}
GridDatasets ==
    {[category |-> Column("categorical", [i \in 1..Len(r) |-> Str(r[i][1])]),
      value    |-> Column("numeric", [i \in 1..Len(r) |-> Num(r[i][2])])] :
        r \in CellSeqs({"A", "B"} \X {10, 20})}
OtherDatasets ==
    { [category |-> Column("categorical", <<Str("A"), Str("A"), Str("B")>>),
       value |-> Column("numeric", <<Num(10), Num(20), Num(30)>>)],
      [category |-> Column("categorical", <<Str("A"), Str("B"), Str("B")>>)],
      [n1 |-> Column("numeric", <<Num(2), Num(10), Num(2)>>),
       n2 |-> Column("numeric", <<Num(1), Num(2), Num(10)>>)],
      [category |-> Column("categorical", <<Str("B"), Str("A"), Str("B")>>),
       n1 |-> Column("numeric", <<Num(1), Num(2), Num(10)>>),
       n2 |-> Column("numeric", <<Num(2), Num(2), Num(1)>>)],
      [category |-> Column("categorical", <<Str("A"), Null, Str("B")>>),
       value |-> Column("numeric", <<Num(1), Num(2), Null>>)],
      ("" :> Column("categorical", <<Str("A"), Null, Str("B")>>))
          @@ ("value" :> Column("numeric", <<Num(1), Num(2), Num(10)>>)) }
VizDatasets == GridDatasets \cup OtherDatasets

InitViz ==
    /\ df \in VizDatasets
    /\ spec \in Selections(df)
    /\ client \in BOOLEAN
    /\ errors = [raised |-> FALSE, errors |-> << >>]
    /\ plot = NoChart
    /\ requests = 0
    /\ phase = "selected"
    /\ parts = << >> /\ reply = NoReply /\ structured = << >>
    /\ cleaned = << >> /\ headers = << >> /\ unique_headers = << >>
    /\ tables = << >> /\ shown = << >>
    /\ SessionIdle

\* a widget is changed: the page is rerun with the new selection and the
\* button not pressed, so no chart and no error is shown
SelectOptions ==
    /\ phase = "generated"
    /\ requests < MaxRequests
    /\ spec' \in Selections(df)
    /\ errors' = [raised |-> FALSE, errors |-> << >>]
    /\ plot' = NoChart
    /\ phase' = "selected"
    /\ UNCHANGED <<df, requests>>

\* the Generate Visualization button pressed on the selections of the page
GenerateVisualization ==
    /\ phase = "selected"
    /\ LET errs == InlineErrors(df, spec.chart_type, spec.x_col, spec.y_col,
                                spec.color_col)
           fr == PlotFrames(df, spec.chart_type, spec.x_col, spec.color_col)
       IN  /\ errors' = [raised |-> FALSE, errors |-> errs]
           /\ IF errs # << >>
              THEN plot' = NoChart /\ df' = df
              ELSE /\ df' = fr.df
                   /\ \E c \in Draw(fr.plot_df, spec.chart_type, spec.x_col,
                                    spec.y_col, spec.color_col, spec.agg_method),
                         raises \in BOOLEAN :
                          plot' = [c EXCEPT !.insight =
                                      Insight(c.kind, spec.chart_type, client, raises)]
    /\ requests' = requests + 1
    /\ phase' = "generated"
    /\ UNCHANGED spec

NextViz ==
    \/ (SelectOptions /\ UNCHANGED <<textVars, tableVars, sessionVars>>)
    \/ (GenerateVisualization /\ UNCHANGED <<textVars, tableVars, sessionVars>>)

SpecViz == InitViz /\ [][NextViz]_vars

\* C10: for chart type scatter, validation (validate_columns, or the checks of
\* the Generate Visualization button), when it returns, returns an error
\* whenever the selected x column equals the selected y column, for every
\* dataset.
C10_ScatterSameColumnRejected ==
    (phase \in {"validated", "generated"} /\ spec.chart_type = "Scatter Plot"
        /\ spec.x_col = spec.y_col /\ ~errors.raised)
        => errors.errors # << >>

(***************************************************************************)
(* Properties of Generate Visualization                                    *)
(***************************************************************************)
Generated == phase = "generated"
Reported == errors.errors # << >>
Aggregated == spec.agg_method \notin {"None", "unset"}
\* a chart was handed to st.pyplot
Drawn == plot.kind \in {"pie", "scatter", "bar", "line"}
\* the request ended with an error message and without a chart
Refused == ~Drawn /\ (Reported \/ plot.kind = "failed")

\* the columns a chart spec selects: x, y (the value column of a pie) and,
\* for a scatter plot, the color column
SelectedCols(s) ==
    ({s.x_col, s.y_col}
        \cup (IF s.chart_type = "Scatter Plot" THEN {s.color_col} ELSE {}))
    \ {NoCol}
HasMissing(d, c) == \E i \in DOMAIN d[c.name].values : d[c.name].values[i] = Null
IsNumeric(d, c) == ~c.none /\ c.name \in DOMAIN d /\ d[c.name].class = "numeric"
IsCategorical(d, c) ==
    ~c.none /\ c.name \in DOMAIN d /\ d[c.name].class = "categorical"

\* a chart spec that the column table of the chart types does not allow
InvalidSpec(d, s) ==
    \/ s.x_col.none
    \/ s.chart_type \in {"Column Chart", "Pie Chart"} /\ ~IsCategorical(d, s.x_col)
    \/ s.chart_type = "Scatter Plot" /\ ~IsNumeric(d, s.x_col)
    \/ s.chart_type \in {"Column Chart", "Line Chart", "Scatter Plot"}
          /\ ~IsNumeric(d, s.y_col)
    \/ s.chart_type = "Pie Chart" /\ ~s.y_col.none /\ ~IsNumeric(d, s.y_col)
    \/ s.chart_type = "Scatter Plot" /\ s.x_col = s.y_col
    \/ \E c \in SelectedCols(s) : HasMissing(d, c)

\* C11: a chart is drawn only from a valid spec: when a required column is
\* absent, a column is of the wrong class for its slot, scatter x equals y,
\* or a selected column has missing values, an error is reported and no
\* chart is drawn.
C11_DrawOnlyValidSpecs ==
    (Generated /\ InvalidSpec(df, spec)) => Refused

\* C12: for column and pie charts a spec whose x column is not a categorical
\* column of the dataset is rejected: an error is reported and no chart is
\* drawn.
C12_CategoricalXRequired ==
    (Generated /\ spec.chart_type \in {"Column Chart", "Pie Chart"}
        /\ ~IsCategorical(df, spec.x_col))
        => Refused

\* C13: for column, line and scatter charts validation reports an error
\* whenever the y column is absent or is not a numeric column of the dataset.
C13_NumericYRequired ==
    (phase \in {"validated", "generated"} /\ ~errors.raised
        /\ spec.chart_type \in {"Column Chart", "Line Chart", "Scatter Plot"}
        /\ ~IsNumeric(df, spec.y_col))
        => Reported

\* C14: for a scatter plot any column of the dataset is accepted as the color
\* column: validation reports no error because of the color column's type,
\* and a chart that is drawn groups by the color column's values as strings.
ColorTypeError == "Color-by column must be categorical"
C14_AnyColorColumnAccepted ==
    (phase \in {"validated", "generated"} /\ ~errors.raised
        /\ spec.chart_type = "Scatter Plot"
        /\ ~spec.color_col.none /\ spec.color_col.name \in DOMAIN df)
        => /\ \A i \in DOMAIN errors.errors : errors.errors[i] # ColorTypeError
           /\ (Generated /\ Drawn) =>
                 \A k \in DOMAIN plot.series : plot.series[k].label.t # "num"

\* C15: if a selected column (x, y or pie value, or scatter color) has a
\* missing value, validation reports an error naming that column and no chart
\* is drawn, so no row is dropped to make the chart drawable.
MissingMessage(c) == "Column '" \o c.name \o "' contains missing values"
C15_MissingValuesReported ==
    Generated =>
        \A c \in SelectedCols(spec) :
            HasMissing(df, c) =>
                /\ \E i \in DOMAIN errors.errors : errors.errors[i] = MissingMessage(c)
                /\ plot = NoChart

\* the rows of d whose x value, converted as the chart converts it, is key
RowsOfKey(d, x, key) ==
    {i \in DOMAIN d[x].values :
        /\ d[x].values[i] # Null
        /\ key = IF d[x].values[i].t = "num" /\ key.t = "str"
                 THEN Str(ToString(d[x].values[i].n)) ELSE d[x].values[i]}

\* C16: the groups of a pie chart are in descending order of their value,
\* with a value column and without one; without a numeric column the
\* aggregation is count and the value of a group is the frequency of its
\* category.  The groups of an aggregated column or line chart are in
\* ascending order of their key.
C16_PieGroupsDescending ==
    Generated =>
        /\ plot.kind = "pie" =>
              /\ \A i, j \in DOMAIN plot.groups :
                    i < j => ~FracLess(plot.groups[i].value, plot.groups[j].value)
              /\ spec.y_col.none =>
                    /\ spec.agg_method = "count"
                    /\ \A i \in DOMAIN plot.groups :
                          plot.groups[i].value =
                              [num |-> Cardinality(RowsOfKey(df, spec.x_col.name,
                                                             plot.groups[i].key)),
                               den |-> 1]
        /\ (plot.kind \in {"bar", "line"} /\ Aggregated) =>
              \A i, j \in DOMAIN plot.groups :
                  i < j => CellLess(plot.groups[i].key, plot.groups[j].key)

\* C16 witness: a pie chart of category counts whose largest group is not the
\* one with the first key
C16_Witness ==
    /\ Generated /\ plot.kind = "pie"
    /\ Len(plot.groups) = 2
    /\ CellLess(plot.groups[2].key, plot.groups[1].key)
    /\ FracLess(plot.groups[2].value, plot.groups[1].value)
    /\ spec.y_col.none

\* v is the reduction agg_method of the y values of the rows R of d
IsReduction(agg_method, v, d, y, R) ==
    LET n == Cardinality(R)
        val(i) == d[y].values[i].n
        below == {i \in R : val(i) * v.den < v.num}
        above == {i \in R : val(i) * v.den > v.num}
    IN  /\ v.den > 0
        /\ agg_method = "sum" => v.num = SumOf(d[y], R) * v.den
        /\ agg_method = "count" => v.num = n * v.den
        /\ agg_method = "mean" => v.num * n = SumOf(d[y], R) * v.den
        /\ agg_method = "median" =>
              /\ 2 * Cardinality(below) <= n /\ 2 * Cardinality(above) <= n
              /\ \E lo, hi \in R :
                    /\ val(lo) * v.den <= v.num /\ val(hi) * v.den >= v.num
                    /\ \A j \in R : ~(val(lo) < val(j) /\ val(j) < val(hi))
                    /\ 2 * v.num = (val(lo) + val(hi)) * v.den

\* C17: with an aggregation on a column or line chart the aggregated data has
\* exactly one row per distinct x value, whose y is the chosen reduction of
\* the y values of exactly the dataset rows with that x value; without an
\* aggregation the rows are passed through as they are.
C17_OneGroupPerValue ==
    (Generated /\ plot.kind \in {"bar", "line"}) =>
        LET x == spec.x_col.name
            y == spec.y_col.name
            rows == DOMAIN df[x].values
        IN  IF Aggregated
            THEN /\ \A i \in rows :
                       df[x].values[i] # Null =>
                          Cardinality({g \in DOMAIN plot.groups :
                              i \in RowsOfKey(df, x, plot.groups[g].key)}) = 1
                 /\ \A g \in DOMAIN plot.groups :
                       /\ RowsOfKey(df, x, plot.groups[g].key) # {}
                       /\ IsReduction(spec.agg_method, plot.groups[g].value, df, y,
                                      RowsOfKey(df, x, plot.groups[g].key))
            ELSE /\ DOMAIN plot.groups = rows
                 /\ \A i \in rows :
                       /\ df[x].values[i] # Null =>
                             RowsOfKey(df, x, plot.groups[i].key)
                                 = {j \in rows : df[x].values[j] = df[x].values[i]}
                       /\ plot.groups[i].value = [num |-> df[y].values[i].n, den |-> 1]

\* C17 witness: category [A, A, B] and value [10, 20, 30] summed by category
\* give A = 30 and B = 30
C17_Witness ==
    /\ Generated /\ plot.kind = "bar" /\ spec.agg_method = "sum"
    /\ spec.x_col = Col("category") /\ spec.y_col = Col("value")
    /\ df["category"].values = <<Str("A"), Str("A"), Str("B")>>
    /\ df["value"].values = <<Num(10), Num(20), Num(30)>>
    /\ plot.groups = << [key |-> Str("A"), value |-> [num |-> 30, den |-> 1]],
                        [key |-> Str("B"), value |-> [num |-> 30, den |-> 1]] >>

\* C18: Generate Visualization never changes the dataset held in session
\* state, whatever the chart type, the aggregation, the conversions made for
\* the chart and the outcome of the request.
C18_DatasetNeverChanged == [][df' = df]_vars

\* C18 witness: a second request was made, and its chart was drawn from an x
\* column converted to strings
C18_Witness ==
    /\ Generated /\ requests = 2 /\ Drawn
    /\ spec.chart_type \in {"Column Chart", "Pie Chart"}
    /\ df[spec.x_col.name].class = "numeric"
    /\ \A g \in DOMAIN plot.groups : plot.groups[g].key.t = "str"

(***************************************************************************)
(* Properties of the heuristic mode of structure_text                      *)
(***************************************************************************)
\* structure_text ran without the AI-assisted path
HeuristicOnly == Structured /\ ~UsesAI(StructArg, client)
\* the heading patterns whose split of t has more than one segment
SplittingPatterns(t) ==
    {i \in 1..Len(section_patterns) : Len(ReSplit(section_patterns[i], t)) > 1}

\* C19: in heuristic mode the segments of the result are taken from the first
\* pattern of the list whose split of the text has more than one segment;
\* no later pattern contributes a segment.
C19_FirstSplittingPatternOnly ==
    (HeuristicOnly /\ SplittingPatterns(StructArg) # {}) =>
        Contents(structured) =
            LongPieces(ReSplit(section_patterns[Min(SplittingPatterns(StructArg))],
                               StructArg))

\* C20: in heuristic mode every section has an empty heading; the sections
\* have type `section` exactly when some heading pattern split the text and
\* type `paragraph` exactly when none did.
C20_TypeTellsTheSplit ==
    HeuristicOnly =>
        \A i \in 1..Len(structured) :
            /\ structured[i].heading = ""
            /\ structured[i].type =
                  IF SplittingPatterns(StructArg) # {} THEN "section"
                  ELSE "paragraph"

(***************************************************************************)
(* Section records                                                         *)
(***************************************************************************)
\* the section types of a StructuredSection
SectionTypes == {"paragraph", "section", "title", "heading", "list"}

\* C21: every section returned by structure_text, in AI-assisted and in
\* heuristic mode, has one of the five section types and a length equal to
\* the number of characters of its content.
C21_SectionsWellTyped ==
    Structured =>
        \A i \in 1..Len(structured) :
            /\ structured[i].type \in SectionTypes
            /\ structured[i].length = Len(structured[i].content)

(***************************************************************************)
(* Structuring a cleaned text                                              *)
(***************************************************************************)
\* C26: on a text produced by clean_text, structure_text in heuristic mode
\* returns at most one section; that section has type paragraph and its
\* content is the whole cleaned text, which holds no newline character.
C26_CleanedTextOneParagraph ==
    (phase = "processed" /\ ~UsesAI(cleaned, client)) =>
        /\ \A k \in 1..Len(cleaned) : cleaned[k] # 10
        /\ Len(structured) <= 1
        /\ \A i \in 1..Len(structured) :
              /\ structured[i].type = "paragraph"
              /\ structured[i].content = cleaned

\* a text that a heading pattern splits is cleaned and comes out as one
\* paragraph
C26_Witness ==
    /\ phase = "processed" /\ ~UsesAI(cleaned, client)
    /\ SplittingPatterns(text) # {}
    /\ Len(structured) = 1

(***************************************************************************)
(* st.session_state and the pages that share it (home.py 50-64,            *)
(* doc2text.py 180-372, image2text.py 29-187, data2visual.py 21-172)       *)
(***************************************************************************)
\* Python's None, and a value stored by page pg that was derived from the
\* upload src
PyNone == [t |-> "None"]
Stored(pg, src, v) == [t |-> "value", page |-> pg, src |-> src, v |-> v]
\* `if x:` is false for None, '' and []
Falsy(x) == x.t = "None" \/ x.v = << >>

\* st.session_state.get(k) and st.session_state[k] = x
SessionGet(s, k) == IF k \in DOMAIN s THEN s[k] ELSE PyNone
SessionSet(s, k, x) == [j \in DOMAIN s \cup {k} |-> IF j = k THEN x ELSE s[j]]

Pages == {"doc", "image", "data"}

\* the keys each page initialises when they are missing
PageKeys(pg) ==
    CASE pg = "doc"   -> {"extracted_text", "structured_data", "analysis_results"}
      [] pg = "image" -> {"image", "extracted_text", "analysis_results"}
      [] pg = "data"  -> {"df", "show_visualization", "aggregation_suggestions"}
      [] OTHER        -> {}

InitState(pg, s) ==
    [k \in DOMAIN s \cup PageKeys(pg) |->
        IF k \in DOMAIN s THEN s[k]
        ELSE IF k = "show_visualization" THEN FALSE ELSE PyNone]

\* what the display sections of the document page (281-323) and of the image
\* page (113-130) show: the text area, and the tables under it
Display(pg, s) ==
    LET t  == SessionGet(s, "extracted_text")
        tb == SessionGet(s, "tables")
    IN  [content |-> IF pg \in {"doc", "image"} /\ ~Falsy(t) THEN t ELSE PyNone,
         tables  |-> IF pg = "doc" /\ ~Falsy(t) /\ ~Falsy(tb) THEN tb ELSE PyNone]

\* one run of a page script: the button handled, the upload it handled,
\* whether a call of an external service raised, the messages shown, the
\* runs of the clean-and-structure step and the structuring requests sent,
\* the text put in an analysis prompt, the data preview, and the display
Ran(handler, src, pg, s) ==
    [handler |-> handler, src |-> src, raised |-> FALSE, msgs |-> {},
     runs |-> 0, llm |-> 0, prompt |-> PyNone, preview |-> PyNone,
     view |-> Display(pg, s)]

\* ---- uploads ------------------------------------------------------------
\* a document: what its extractor returns for it (text as fragment names)
Doc(id, ext, ps, tbls) == [id |-> id, ext |-> ext, parts |-> ps, tables |-> tbls]
GridTable == << <<CellNum("1"), CellNum("2")>> >>
Documents ==
    { Doc(1, "pdf",  <<"Six", "NL2", "Para">>, <<GridTable>>),
      Doc(2, "pdf",  << >>, << >>),
      Doc(3, "docx", <<"Six", "Filler">>, << >>),
      Doc(4, "txt",  <<"Six">>, << >>),
      Doc(5, "csv",  <<"CsvHead", "Six", "Filler">>, <<GridTable>>),
      Doc(6, "xlsx", <<"SheetHead", "Six">>, <<GridTable>>) }

\* replies of the structuring request
SessionReplies ==
    { [kind |-> "raise", body |-> JNull],
      [kind |-> "json",
       body |-> JObj([sections |->
                        [t |-> "list",
                         v |-> <<JObj([content |-> LongContent,
                                       type |-> JStr("heading")])>>]])] }

\* clean_text and structure_text on the text of each document: the first
\* run on the extracted text, the second run on the result of the first
Pipeline(d) ==
    LET c1 == clean_text(TextOf(d.parts))
        c2 == clean_text(c1)
    IN  [text |-> TextOf(d.parts), first |-> c1, second |-> c2,
         sections |->
            [cl \in BOOLEAN |-> [rep \in SessionReplies |->
                [first  |-> structure_text(c1, cl, rep),
                 second |-> structure_text(c2, cl, rep),
                 warned |-> UsesAI(c1, cl) /\ AIPath(rep).raised]]]]

\* images: the string pytesseract.image_to_string returns for them
Images ==
    { [id |-> 11, text |-> <<84, 111, 116, 97, 108, 58, 32, 36, 49, 50, 46, 53,
                             48, 32, 42, 10>>],      \* 'Total: $12.50 *\n'
      [id |-> 12, text |-> <<32, 10>>] }             \* ' \n'

\* re.sub(r'[^\w\s\-.,$€£¥%]', '', text) on these texts, then the whitespace
\* runs and the strip
OcrKept ==
    (48..57) \cup (65..90) \cup (97..122) \cup {95} \cup Whitespace
        \cup {45, 46, 44, 36, 8364, 163, 165, 37}
clean_ocr_text(t) ==
    Strip(SubWhitespaceRuns(SelectSeq(t, LAMBDA c : c \in OcrKept)))

\* extract_text: the OCR call, None for a blank result and when it raises
extract_text(img, raises) ==
    IF raises THEN [text |-> << >>, msgs |-> {"OCR Error"}]
    ELSE [text |-> IF Strip(img.text) # << >> THEN img.text ELSE << >>,
          msgs |-> {}]

\* data files: file name extension, data source and parsed rows
SUPPORTED_TYPES == {"csv", "xlsx", "json"}
DataFile(id, option, ext, rows) ==
    [id |-> id, option |-> option, ext |-> ext, rows |-> rows]
DataFiles ==
    { DataFile(21, "upload", "csv",  << <<1, 2>> >>),
      DataFile(22, "upload", "json", << <<3, 4>>, <<5, 6>> >>),
      DataFile(23, "upload", "xlsx", << <<7, 8>> >>),
      DataFile(24, "upload", "txt",  << <<9, 9>> >>),
      DataFile(25, "sample", "csv",  << <<0, 1>> >>) }

\* lines 148-156 with every extension parsed as csv
ReadAnyDataFile(f, fails) ==
    IF fails THEN [raised |-> TRUE, df |-> PyNone, msgs |-> {}]
    ELSE [raised |-> FALSE, df |-> Stored("data", f.id, f.rows), msgs |-> {}]

\* lines 148-156: the reader for the extension, or the error and df = None
ReadDataFile(f, fails) ==
    IF f.ext \in SUPPORTED_TYPES
    THEN IF fails THEN [raised |-> TRUE, df |-> PyNone, msgs |-> {}]
         ELSE [raised |-> FALSE, df |-> Stored("data", f.id, f.rows),
               msgs |-> {}]
    ELSE [raised |-> FALSE, df |-> PyNone, msgs |-> {"Unsupported file type"}]

get_aggregation_suggestions(cl, d, raises) ==
    IF ~cl \/ d.t = "None" THEN [v |-> PyNone, msgs |-> {}]
    ELSE IF raises THEN [v |-> PyNone, msgs |-> {"Failed to generate suggestions"}]
    ELSE [v |-> Stored("data", d.src, <<"suggestions">>), msgs |-> {}]

\* ---- the pages ----------------------------------------------------------
InitSession ==
    /\ client \in BOOLEAN
    /\ page = "intro"
    /\ session = << >>
    /\ tmp_files = {}
    /\ out = Ran("open", 0, "intro", << >>)
    /\ clicks = 0
    /\ parts = << >> /\ reply = NoReply /\ cleaned = << >> /\ structured = << >>
    /\ phase = "input"
    /\ headers = << >> /\ unique_headers = << >> /\ tables = << >> /\ shown = << >>
    /\ df = << >> /\ spec = << >> /\ errors = << >> /\ plot = << >> /\ requests = 0

\* st.navigation runs the script of another page
Navigate ==
    /\ \E pg \in Pages \ {page} :
          /\ page' = pg
          /\ session' = InitState(pg, session)
          /\ out' = Ran("open", 0, pg, session')
    /\ UNCHANGED <<client, tmp_files, clicks>>

\* lines 246-249, 257-260 and 265-268: clean, store, structure, store
StoreText(s, d, cleanedText, secs) ==
    SessionSet(SessionSet(s, "extracted_text", Stored("doc", d.id, cleanedText)),
               "structured_data", Stored("doc", d.id, secs))

\* Process Document (217-279) on the uploaded document d; `fails` when the
\* extractor of its file type raises
ProcessDocument ==
    /\ page = "doc"
    /\ clicks < MaxClicks
    /\ \E d \in Documents : \E run \in {Pipeline(d)} :
       \E fails \in BOOLEAN, rep1, rep2 \in SessionReplies :
          LET f       == clicks + 1
              tabular == d.ext \in {"csv", "xlsx"}
              secs1   == run.sections[client][rep1]
              secs2   == run.sections[client][rep2]
              \* text and tables after the branch of the file type
              t0      == IF fails THEN << >> ELSE run.text
              tb0     == IF fails THEN << >> ELSE d.tables
              inner   == tabular /\ t0 # << >>
              s1      == IF inner THEN StoreText(session, d, run.first, secs1.first)
                         ELSE session
              t1      == IF inner THEN run.first ELSE t0
              \* lines 265-268 and 271-272
              outer   == t1 # << >>
              s2      == IF outer
                         THEN StoreText(s1, d,
                                        IF inner THEN run.second ELSE run.first,
                                        IF inner THEN secs2.second ELSE secs2.first)
                         ELSE s1
              s3      == IF tb0 # << >>
                         THEN SessionSet(s2, "tables", Stored("doc", d.id, tb0))
                         ELSE s2
              nruns   == (IF inner THEN 1 ELSE 0) + (IF outer THEN 1 ELSE 0)
              nllm    == (IF inner /\ UsesAI(run.first, client) THEN 1 ELSE 0)
                         + (IF outer /\ UsesAI(IF inner THEN run.second
                                                ELSE run.first, client)
                            THEN 1 ELSE 0)
              warn    == IF (inner /\ secs1.warned) \/ (outer /\ secs2.warned)
                         THEN {"AI structure analysis failed, using fallback"}
                         ELSE {}
          IN  IF fails /\ ~tabular
              THEN /\ session' = session
                   /\ tmp_files' = tmp_files \cup {f}
                   /\ out' = [Ran("Process Document", d.id, "doc", session)
                                EXCEPT !.raised = TRUE,
                                       !.msgs = {"Document processing failed"}]
              ELSE /\ session' = s3
                   /\ tmp_files' = tmp_files
                   /\ out' = [Ran("Process Document", d.id, "doc", s3)
                                EXCEPT !.raised = fails,
                                       !.runs = nruns, !.llm = nllm,
                                       !.msgs = warn
                                         \cup (IF fails
                                               THEN {IF d.ext = "csv"
                                                     THEN "Failed to process CSV file"
                                                     ELSE "Failed to process Excel file"}
                                               ELSE {})
                                         \cup {"Document processed successfully!"}]
    /\ clicks' = clicks + 1
    /\ UNCHANGED <<client, page>>

\* text[:n] of a stored text
Prefix(x, n) ==
    IF x.t = "None" THEN x
    ELSE [x EXCEPT !.v = SubSeq(x.v, 1, IF Len(x.v) < n THEN Len(x.v) ELSE n)]

\* Run Analysis (doc2text.py 326-366) and Analyze Text (image2text.py
\* 133-181): shown when a text is stored and the client exists; pr is the
\* text put in the prompt
Analyze(pg, handler, pr) ==
    /\ page = pg
    /\ clicks < MaxClicks
    /\ client
    /\ ~Falsy(SessionGet(session, "extracted_text"))
    /\ \E raises \in BOOLEAN :
          LET t  == SessionGet(session, "extracted_text")
              s1 == IF raises THEN session
                    ELSE SessionSet(session, "analysis_results",
                                    Stored(pg, t.src, <<"analysis">>))
          IN  /\ session' = s1
              /\ out' = [Ran(handler, t.src, pg, s1)
                           EXCEPT !.raised = raises, !.prompt = pr,
                                  !.msgs = IF raises THEN {"Analysis failed"}
                                           ELSE {"Analysis Results"}]
    /\ clicks' = clicks + 1
    /\ UNCHANGED <<client, page, tmp_files>>

RunAnalysis ==
    Analyze("doc", "Run Analysis",
            Prefix(SessionGet(session, "extracted_text"), PromptChars))
AnalyzeText ==
    Analyze("image", "Analyze Text", SessionGet(session, "extracted_text"))

\* Extract Text (image2text.py 61-111) on the uploaded image
ExtractText ==
    /\ page = "image"
    /\ clicks < MaxClicks
    /\ \E img \in Images, outcome \in {"ok", "ocr_raises", "preprocess_raises"} :
          LET s0  == SessionSet(session, "image", Stored("image", img.id, << >>))
              ocr == extract_text(img, outcome = "ocr_raises")
              s1  == IF outcome = "preprocess_raises" THEN s0
                     ELSE IF ocr.text = << >>
                     THEN SessionSet(s0, "extracted_text",
                                     Stored("image", img.id, << >>))
                     ELSE SessionSet(s0, "extracted_text",
                                     Stored("image", img.id,
                                            clean_ocr_text(ocr.text)))
          IN  /\ session' = s1
              /\ out' = [Ran("Extract Text", img.id, "image", s1)
                           EXCEPT !.raised = outcome # "ok",
                                  !.msgs =
                                     IF outcome = "preprocess_raises"
                                     THEN {"Text extraction failed"}
                                     ELSE IF ocr.text = << >>
                                     THEN ocr.msgs \cup {"No text found. Try a clearer image."}
                                     ELSE {"Text extraction complete!"}]
    /\ clicks' = clicks + 1
    /\ UNCHANGED <<client, page, tmp_files>>

\* Clear All: session_state.clear() and st.rerun()
ClearAll ==
    /\ page \in Pages
    /\ clicks < MaxClicks
    /\ session' = InitState(page, << >>)
    /\ out' = Ran("Clear All", 0, page, session')
    /\ clicks' = clicks + 1
    /\ UNCHANGED <<client, page, tmp_files>>

\* Process Data (data2visual.py 138-172) on the data file f
ProcessData ==
    /\ page = "data"
    /\ clicks < MaxClicks
    /\ \E f \in DataFiles, fails, raises \in BOOLEAN :
          LET tmp  == IF f.option = "upload" THEN {clicks + 1} ELSE {}
              rd   == ReadDataFile(f, fails)
              sg   == get_aggregation_suggestions(client, rd.df, raises)
              s1   == IF rd.df.t = "None" THEN session
                      ELSE SessionSet(SessionSet(SessionSet(session,
                               "df", rd.df),
                               "show_visualization", TRUE),
                               "aggregation_suggestions", sg.v)
              done == IF rd.df.t = "None" THEN rd.msgs
                      ELSE sg.msgs \cup {"Data processed successfully!"}
              sdf  == SessionGet(s1, "df")
          IN  IF rd.raised
              THEN /\ session' = session
                   /\ tmp_files' = tmp_files \cup tmp
                   /\ out' = [Ran("Process Data", f.id, "data", session)
                                EXCEPT !.raised = TRUE,
                                       !.msgs = {"Data processing failed"}]
              ELSE /\ session' = s1
                   /\ tmp_files' = tmp_files
                   /\ out' = [Ran("Process Data", f.id, "data", s1)
                                EXCEPT !.preview = sdf,
                                       !.msgs = IF sdf.t = "None"
                                                THEN done \cup {"Data processing failed"}
                                                ELSE done \cup {"Data Preview"}]
    /\ clicks' = clicks + 1
    /\ UNCHANGED <<client, page>>

\* the variables of the other specifications
idleVars == <<parts, reply, cleaned, structured, phase, tableVars, chartVars>>

NextSession ==
    \/ (Navigate /\ UNCHANGED idleVars)
    \/ (ProcessDocument /\ UNCHANGED idleVars)
    \/ (RunAnalysis /\ UNCHANGED idleVars)
    \/ (ExtractText /\ UNCHANGED idleVars)
    \/ (AnalyzeText /\ UNCHANGED idleVars)
    \/ (ClearAll /\ UNCHANGED idleVars)
    \/ (ProcessData /\ UNCHANGED idleVars)

SpecSession == InitSession /\ [][NextSession]_vars

(***************************************************************************)
(* Session state of the pages                                              *)
(***************************************************************************)
\* the last run handled a click on `handler`
Handled(handler) == out.handler = handler
\* a value that holds something: not None, '' or []
Holds(x) == ~Falsy(x)
\* the stored values of the keys K, None standing for every empty value
Kept(s, K) ==
    [k \in K |-> IF Holds(SessionGet(s, k)) THEN SessionGet(s, k) ELSE PyNone]

DocumentKeys == {"extracted_text", "structured_data", "tables"}
ReportedSuccess == "Document processed successfully!" \in out.msgs

\* C22: after a Process Document action on document D that reports success,
\* the extracted text, the structured sections and the tables of the session
\* all come from D: nothing extracted from another upload remains, also
\* when D has no tables or no extractable text.
C22_StateComesFromDocument ==
    (Handled("Process Document") /\ ReportedSuccess) =>
        \A k \in DocumentKeys :
            Holds(SessionGet(session, k)) =>
                /\ SessionGet(session, k).page = "doc"
                /\ SessionGet(session, k).src = out.src

\* the handlers whose language-model or OCR call has no heuristic fallback
Unrecoverable == {"Run Analysis", "Analyze Text", "Extract Text"}
ExternalFailure == out.handler \in Unrecoverable /\ out.raised
ErrorMessages == {"Analysis failed", "OCR Error", "Text extraction failed"}
PriorKeys ==
    {"extracted_text", "structured_data", "tables", "analysis_results"}

\* C23: when a language-model call or an OCR call without heuristic fallback
\* fails, an inline error is shown and the extracted text, structured
\* sections, tables and analysis results of the session are as they were
\* before the action.
C23_FailureLeavesState ==
    [][(clicks' = clicks + 1 /\ ExternalFailure') =>
          /\ out'.msgs \cap ErrorMessages # {}
          /\ Kept(session', PriorKeys) = Kept(session, PriorKeys)]_vars

\* the data file with this id has an extension the readers do not know
UnsupportedFile(id) ==
    \E f \in DataFiles : f.id = id /\ f.ext \notin SUPPORTED_TYPES
DataKeys == {"df", "aggregation_suggestions"}

\* C24: Process Data on a file whose extension is not csv, xlsx or json
\* shows the unsupported-file-type error, leaves the dataset, the
\* visualization flag and the aggregation suggestions of the session
\* unchanged, and shows no preview of the rejected file.
C24_UnsupportedFileRejected ==
    [][(clicks' = clicks + 1 /\ Handled("Process Data")'
        /\ UnsupportedFile(out'.src)) =>
          /\ "Unsupported file type" \in out'.msgs
          /\ Kept(session', DataKeys) = Kept(session, DataKeys)
          /\ session'["show_visualization"] = session["show_visualization"]
          /\ (out'.preview.t = "None" \/ out'.preview.src # out'.src)]_vars

\* a file is rejected while an earlier dataset is loaded
C24_Witness ==
    /\ Handled("Process Data") /\ UnsupportedFile(out.src)
    /\ "Unsupported file type" \in out.msgs
    /\ Holds(SessionGet(session, "df"))
    /\ session["show_visualization"]

\* C25: one Process Document action runs the clean-and-structure step, and
\* so sends the structuring request, at most once, whatever the file type.
C25_StructuredOncePerAction ==
    Handled("Process Document") => (out.runs <= 1 /\ out.llm <= 1)

\* C27: the document page displays and analyzes only text stored by the
\* document page, and the image page only text stored by the image page.
C27_PagesShowTheirOwnText ==
    page \in {"doc", "image"} =>
        /\ Holds(out.view.content) => out.view.content.page = page
        /\ Holds(out.prompt) => out.prompt.page = page

\* C28: when a Process Document or Process Data handler has finished, the
\* temporary file it created is removed, also when extraction or parsing
\* raised.
C28_TempFilesRemoved == tmp_files = {}

====
